---- MODULE Spec2Model ----
(***************************************************************************)
(* Model of monitor..py: the supervisor loop main(), run_bot() and the     *)
(* helpers they call.  The supervisor is one sequential thread; pc is its  *)
(* position in main().  The child processes it launches run concurrently   *)
(* and may exit at any time.  A KeyboardInterrupt (SIGINT) is an input     *)
(* that Python may raise between any two bytecodes of the main thread.     *)
(***************************************************************************)
EXTENDS Integers, FiniteSets, Sequences, TLC

\* --------------------------------------------------------------- bounds
\* Number of child processes the operating system lets the supervisor
\* create; subprocess.Popen raises OSError beyond it.
MaxChildren == 2

\* ------------------------------------------------------------ constants
None == "None"                  \* Python None for last_title / title / bot_url
NoProc == 0                     \* Python None for bot_proc
PAGE_URL == "https://premisubs1.vercel.app"

Children == 1..MaxChildren

\* The <title> element of a fetched page: absent, or its raw text.
Absent == "<absent>"
HtmlTitles == {Absent, "", " ", "A", " A ", "B"}
\* The href of the first <a href=...> of a fetched page, or no such anchor.
NoAnchor == "<no-anchor>"
HtmlHrefs == {NoAnchor, "", "bot.txt"}
\* HTTP outcomes of requests.get: a response with a 2xx status, a response
\* with another status, or an exception (transport failure, timeout).
HttpOutcomes == {"ok", "non2xx", "neterr"}
\* The exception being handled by `except Exception as e`, by the call that
\* raised it; NoExc outside the handler.
NoExc == "none"

VARIABLES
    pc,          \* position of the supervisor in main()
    last_title,  \* main.last_title
    bot_proc,    \* main.bot_proc: NoProc or the id of a child
    title,       \* main.title
    bot_url,     \* main.bot_url
    ret,         \* value returned by run_bot, not yet stored in bot_proc
    children,    \* the child processes created so far
    e,           \* main.e: the exception caught by `except Exception`
    intr,        \* where a KeyboardInterrupt found the main thread, or "no"
    h_cur,       \* history: the cycle of the latest parsed poll
    h_prev,      \* history: the cycle of the parsed poll before it
    bot_py,      \* content of the file bot.py
    h_commit,    \* history: the child launched in the cycle that executed
                 \* `last_title = title` last
    boot,        \* the process before main(): ensure_env_and_reexec and
                 \* install_core_deps, and what they act on
    manifest     \* install_external_libs: r.text and the list `lines`

vars == <<pc, last_title, bot_proc, title, bot_url, ret, children, e,
          intr, h_cur, h_prev, bot_py, h_commit, boot, manifest>>

\* The variables main() does not touch.
bootvars == <<boot, manifest>>

\* The variables of main() and run_bot, untouched before main() runs.
mainvars == <<last_title, bot_proc, title, bot_url, ret, children, e, intr,
              h_cur, h_prev, bot_py, h_commit>>

\* h_cur: what main() did in the cycle of the latest parsed poll.
\*   last, proc: last_title and bot_proc when the page was parsed
\*   status:     HTTP outcome of the page fetch
\*   started:    the body of the if statement was entered
\*   stop:       progress of run_bot's stop sequence on the old child:
\*               "none", "term" (terminate() sent), "returned" (wait()
\*               returned), "timeout" (wait() raised TimeoutExpired),
\*               "kill" (kill() called)
\*   outcome:    "nopoll", "polled", "failed" (an exception was caught),
\*               "committed" (last_title = title executed)
NoCycle == [last |-> None, proc |-> NoProc, status |-> "none",
            started |-> FALSE, stop |-> "none", outcome |-> "nopoll"]

\* h_prev: summary of the cycle of the parsed poll before h_cur; link is
\* whether parse_page found a link.
NoPrev == [title |-> None, link |-> FALSE, last |-> None, started |-> FALSE,
           outcome |-> "nopoll"]

\* A child process: st is "none" (not created), "alive", "exited" (it
\* ended by itself, SIGTERM included) or "killed" (SIGKILL ended it); term
\* is whether the supervisor has sent it SIGTERM (Popen.terminate).
\* code is the payload the child executes: the content of bot.py when it
\* was launched.
NoChild == [st |-> "none", term |-> FALSE, code |-> "none"]

\* A payload is named by the cycle that fetched it: "new" is the payload
\* fetched in the cycle of the latest parsed poll, "old" one of an earlier
\* cycle, "partial" a file that open(..., 'w') truncated and write() did
\* not complete, "none" no payload.  When a page is parsed a new cycle
\* begins and the payloads of the cycle before become old.
Aged(code) == IF code = "new" THEN "old" ELSE code

Alive(c) == c # NoProc /\ children[c].st = "alive"

AliveChildren == {c \in Children : children[c].st = "alive"}

\* ------------------------------------------------------- pure functions
\* str.strip() on the title texts of HtmlTitles.
strip(s) ==
    CASE s = " "   -> ""
      [] s = " A " -> "A"
      [] OTHER     -> s

\* urljoin(PAGE_URL, href)
urljoin(base, href) ==
    CASE href = ""        -> base
      [] href = "bot.txt" -> "https://premisubs1.vercel.app/bot.txt"
      [] OTHER            -> href

\* Mutant: a page without a title text yields None for the title.
parse_page_none(html) ==
    << IF html.title # Absent /\ html.title # "" THEN strip(html.title) ELSE None,
       IF html.href # NoAnchor THEN urljoin(PAGE_URL, html.href) ELSE None >>

\* parse_page(html): <<title, link>>
parse_page(html) ==
    << IF html.title # Absent /\ html.title # "" THEN strip(html.title) ELSE "",
       IF html.href # NoAnchor THEN urljoin(PAGE_URL, html.href) ELSE None >>

\* Truth value of a str-or-None in a Python condition.
Truthy(s) == s # None /\ s # ""

\* Mutant: `or` written for `and`.
UpdateTrigger_or(t, last, url) == t # last \/ Truthy(url)

\* Mutant: the link is not tested.
UpdateTrigger_nolink(t, last, url) == t # last

\* Mutant: a dead child is also a reason to update.
UpdateTrigger_restart(t, last, url) ==
    (t # last \/ (bot_proc # NoProc /\ ~Alive(bot_proc))) /\ Truthy(url)

\* The condition of the if statement of main().
UpdateTrigger(t, last, url) == t # last /\ Truthy(url)

\* Whether install_external_libs raises, given the outcome of the manifest
\* GET, whether the manifest has package lines, and the two pip runs.
InstallRaises(get, haslines, pip1, pip2) ==
    \/ get # "ok"
    \/ haslines /\ ~pip1 /\ ~pip2

\* Whether requests.get(bot_url) followed by raise_for_status() raises.
GetBotRaises(get) == get # "ok"

\* fetch_page(): requests.get(PAGE_URL).text, no raise_for_status().
FetchPageRaises(get) == get = "neterr"

\* ------------------------------------------------- before main() runs
\* Bounds of the model of the process start (lines 168-172).
\* Process instances: os.execv replaces instance n by instance n + 1.
MaxInstances == 3
\* Calls of ensure_env_and_reexec in one process instance.
MaxCalls == 2

\* boot: the process instance before main() and the directories it uses.
\*   venv:     VENV_DIR on disk: "absent", "nopy" (a directory without
\*             bin/python), "nopip" (an environment with its interpreter
\*             but without pip), "ok"
\*   deps_dir: LOCAL_DEPS exists on disk
\*   prefix:   sys.prefix of this instance: "system" or "venv"
\*   inst:     number of this process instance
\*   on_path:  LOCAL_DEPS is in sys.path
\*   calls:    calls of ensure_env_and_reexec begun in this instance
\*   attempts: environment-creation commands run by this instance
\*   state:    what the latest completed call of ensure_env_and_reexec left:
\*             "none", "IsolatedEnv", "LocalTargetDir"
\*   first:    what the first call of ensure_env_and_reexec of this instance
\*             left, once a second call has begun; "none" before
\*   redo:     what a call after the first of an instance did: "none",
\*             "create", "exec", "raise"
\*   core:     how install_core_deps got requests and beautifulsoup4: "none"
\*             (not run yet), "present" (importable already), "site" (pip
\*             install), "target" (pip install --target LOCAL_DEPS),
\*             "failed"
\*   err:      the uncaught exception that ended the process, or "none"
\* Booted is the instance re-launched inside the environment, entering
\* main().
Booted == [venv |-> "ok", deps_dir |-> FALSE, prefix |-> "venv", inst |-> 2,
           on_path |-> FALSE, calls |-> 1, attempts |-> 0,
           state |-> "IsolatedEnv", first |-> "none", redo |-> "none",
           core |-> "present", err |-> "none"]

\* manifest: the text of libraries.txt and the list install_external_libs
\* makes of it.
NoManifest == [text |-> <<>>, lines |-> <<>>, parsed |-> FALSE]

\* ------------------------------------------------------------- Init
Init ==
    /\ pc = "fetch_page"
    /\ last_title = None
    /\ bot_proc = NoProc
    /\ title = None
    /\ bot_url = None
    /\ ret = NoProc
    /\ children = [c \in Children |-> NoChild]
    /\ e = NoExc
    /\ intr = "no"
    /\ h_cur = NoCycle
    /\ h_prev = NoPrev
    /\ bot_py = "none"
    /\ h_commit = NoProc
    /\ boot = Booted
    /\ manifest = NoManifest

\* Mutant: the exception is not caught and leaves main().
Caught_fatal(exc) ==
    /\ pc' = "uncaught"
    /\ e' = exc

\* The step raises exc: `except Exception as e: print('Error:', e)` and the
\* handler's time.sleep(CHECK_INTERVAL) begins.
Caught(exc) ==
    /\ pc' = "err_sleep"
    /\ e' = exc

\* The step completes without raising and main() continues at p.
Goto(p) ==
    /\ pc' = p
    /\ e' = e

\* ------------------------------------------------------------ actions
\* Mutant: a failed page fetch also stops the running child.
FetchPageFail_stops ==
    /\ pc = "fetch_page"
    /\ \E get \in HttpOutcomes : FetchPageRaises(get)
    /\ Caught("fetch_page")
    /\ children' = IF Alive(bot_proc)
                   THEN [children EXCEPT ![bot_proc].term = TRUE]
                   ELSE children
    /\ UNCHANGED <<last_title, bot_proc, title, bot_url, ret, intr, h_cur,
                   h_prev>>
    /\ UNCHANGED <<bot_py, h_commit>>
    /\ UNCHANGED bootvars

\* html = fetch_page() raises.
FetchPageFail ==
    /\ pc = "fetch_page"
    /\ \E get \in HttpOutcomes : FetchPageRaises(get)
    /\ Caught("fetch_page")
    /\ UNCHANGED <<last_title, bot_proc, title, bot_url, ret, children, intr,
                   h_cur, h_prev>>
    /\ UNCHANGED <<bot_py, h_commit>>
    /\ UNCHANGED bootvars

\* html = fetch_page(); title, bot_url = parse_page(html); if ...: print(...)
Poll ==
    /\ pc = "fetch_page"
    /\ \E get \in HttpOutcomes, t \in HtmlTitles, h \in HtmlHrefs :
         LET p == parse_page([title |-> t, href |-> h]) IN
         /\ ~FetchPageRaises(get)
         /\ title' = p[1]
         /\ bot_url' = p[2]
         /\ h_prev' = [title |-> title, link |-> bot_url # None, last |-> h_cur.last,
                       started |-> h_cur.started, outcome |-> h_cur.outcome]
         /\ h_cur' = [last |-> last_title, proc |-> bot_proc, status |-> get,
                      started |-> UpdateTrigger(p[1], last_title, p[2]),
                      stop |-> "none", outcome |-> "polled"]
         /\ Goto(IF UpdateTrigger(p[1], last_title, p[2])
                 THEN "install_libs" ELSE "sleep")
    /\ bot_py' = Aged(bot_py)
    /\ children' = [c \in Children |->
                      [children[c] EXCEPT !.code = Aged(children[c].code)]]
    /\ UNCHANGED <<last_title, bot_proc, ret, intr, h_commit>>
    /\ UNCHANGED bootvars

\* install_external_libs()
InstallLibs ==
    /\ pc = "install_libs"
    /\ \E get \in HttpOutcomes, haslines \in BOOLEAN, pip1 \in BOOLEAN,
          pip2 \in BOOLEAN :
         IF InstallRaises(get, haslines, pip1, pip2)
         THEN Caught("install_external_libs")
              /\ h_cur' = [h_cur EXCEPT !.outcome = "failed"]
         ELSE Goto("get_bot") /\ UNCHANGED h_cur
    /\ UNCHANGED <<last_title, bot_proc, title, bot_url, ret, children, intr,
                   h_prev>>
    /\ UNCHANGED <<bot_py, h_commit>>
    /\ UNCHANGED bootvars

\* Mutant: last_title is assigned as soon as the payload is fetched.
GetBot_commits ==
    /\ pc = "get_bot"
    /\ \E get \in HttpOutcomes :
         IF GetBotRaises(get)
         THEN /\ Caught("get_bot")
              /\ h_cur' = [h_cur EXCEPT !.outcome = "failed"]
              /\ UNCHANGED last_title
         ELSE /\ Goto("rb_write")
              /\ last_title' = title
              /\ UNCHANGED h_cur
    /\ UNCHANGED <<bot_proc, title, bot_url, ret, children, intr, h_prev>>
    /\ UNCHANGED <<bot_py, h_commit>>
    /\ UNCHANGED bootvars

\* r = requests.get(bot_url, timeout=30); r.raise_for_status()
GetBot ==
    /\ pc = "get_bot"
    /\ \E get \in HttpOutcomes :
         IF GetBotRaises(get)
         THEN Caught("get_bot") /\ h_cur' = [h_cur EXCEPT !.outcome = "failed"]
         ELSE Goto("rb_write") /\ UNCHANGED h_cur
    /\ UNCHANGED <<last_title, bot_proc, title, bot_url, ret, children, intr,
                   h_prev>>
    /\ UNCHANGED <<bot_py, h_commit>>
    /\ UNCHANGED bootvars

\* Mutant: the old child is stopped before bot.py is written.
RbWrite_stopsFirst ==
    /\ pc = "rb_write"
    /\ children' = IF Alive(bot_proc)
                   THEN [children EXCEPT ![bot_proc].term = TRUE]
                   ELSE children
    /\ \E ok \in BOOLEAN :
         IF ok
         THEN /\ Goto("rb_stop")
              /\ bot_py' = "new"
              /\ UNCHANGED h_cur
         ELSE /\ Caught("write")
              /\ bot_py' \in {bot_py, "partial"}
              /\ h_cur' = [h_cur EXCEPT !.outcome = "failed"]
    /\ UNCHANGED <<last_title, bot_proc, title, bot_url, ret, intr, h_prev,
                   h_commit>>
    /\ UNCHANGED bootvars

\* run_bot: with open('bot.py', 'w') as f: f.write(code_str)
RbWrite ==
    /\ pc = "rb_write"
    /\ \E ok \in BOOLEAN :
         IF ok
         THEN /\ Goto("rb_stop")
              /\ bot_py' = "new"
              /\ UNCHANGED h_cur
         ELSE /\ Caught("write")
              /\ bot_py' \in {bot_py, "partial"}
              /\ h_cur' = [h_cur EXCEPT !.outcome = "failed"]
    /\ UNCHANGED <<last_title, bot_proc, title, bot_url, ret, children, intr,
                   h_prev, h_commit>>
    /\ UNCHANGED bootvars

\* run_bot: if old_proc and old_proc.poll() is None: old_proc.terminate()
\* terminate() raises OSError when the signal cannot be sent.
RbStop ==
    /\ pc = "rb_stop"
    /\ IF Alive(bot_proc)
       THEN \E ok \in BOOLEAN :
              IF ok
              THEN /\ children' = [children EXCEPT ![bot_proc].term = TRUE]
                   /\ Goto("rb_wait")
                   /\ h_cur' = [h_cur EXCEPT !.stop = "term"]
              ELSE /\ Caught("terminate")
                   /\ h_cur' = [h_cur EXCEPT !.outcome = "failed"]
                   /\ UNCHANGED children
       ELSE Goto("rb_launch") /\ UNCHANGED <<children, h_cur>>
    /\ UNCHANGED <<last_title, bot_proc, title, bot_url, ret, intr, h_prev>>
    /\ UNCHANGED <<bot_py, h_commit>>
    /\ UNCHANGED bootvars

\* run_bot: old_proc.wait(timeout=10) returns: the child has exited.
RbWaitReturn ==
    /\ pc = "rb_wait"
    /\ ~Alive(bot_proc)
    /\ Goto("rb_launch")
    /\ h_cur' = [h_cur EXCEPT !.stop = "returned"]
    /\ UNCHANGED <<last_title, bot_proc, title, bot_url, ret, children, intr,
                   h_prev>>
    /\ UNCHANGED <<bot_py, h_commit>>
    /\ UNCHANGED bootvars

\* Mutant: TimeoutExpired is swallowed (`pass`), kill() is never called.
RbWaitTimeout_pass ==
    /\ pc = "rb_wait"
    /\ Alive(bot_proc)
    /\ Goto("rb_launch")
    /\ h_cur' = [h_cur EXCEPT !.stop = "timeout"]
    /\ UNCHANGED <<last_title, bot_proc, title, bot_url, ret, children, intr,
                   h_prev>>
    /\ UNCHANGED <<bot_py, h_commit>>
    /\ UNCHANGED bootvars

\* run_bot: old_proc.wait(timeout=10) raises TimeoutExpired: the child is
\* still running when the 10 seconds are over.
RbWaitTimeout ==
    /\ pc = "rb_wait"
    /\ Alive(bot_proc)
    /\ Goto("rb_kill")
    /\ h_cur' = [h_cur EXCEPT !.stop = "timeout"]
    /\ UNCHANGED <<last_title, bot_proc, title, bot_url, ret, children, intr,
                   h_prev>>
    /\ UNCHANGED <<bot_py, h_commit>>
    /\ UNCHANGED bootvars

\* Mutant: terminate() is called a second time where kill() should be.
RbKill_terminate ==
    /\ pc = "rb_kill"
    /\ children' = IF Alive(bot_proc)
                   THEN [children EXCEPT ![bot_proc].term = TRUE]
                   ELSE children
    /\ Goto("rb_launch")
    /\ h_cur' = [h_cur EXCEPT !.stop = "kill"]
    /\ UNCHANGED <<last_title, bot_proc, title, bot_url, ret, intr, h_prev>>
    /\ UNCHANGED <<bot_py, h_commit>>
    /\ UNCHANGED bootvars

\* run_bot: except subprocess.TimeoutExpired: old_proc.kill()
\* Popen.kill() sends SIGKILL unless the child is found to have exited.
RbKill ==
    /\ pc = "rb_kill"
    /\ children' = IF Alive(bot_proc)
                   THEN [children EXCEPT ![bot_proc].st = "killed"]
                   ELSE children
    /\ Goto("rb_launch")
    /\ h_cur' = [h_cur EXCEPT !.stop = "kill"]
    /\ UNCHANGED <<last_title, bot_proc, title, bot_url, ret, intr, h_prev>>
    /\ UNCHANGED <<bot_py, h_commit>>
    /\ UNCHANGED bootvars

\* Mutant: run_bot swallows a failing Popen and returns old_proc, so main()
\* goes on to commit the title.
RbLaunch_swallow ==
    /\ pc = "rb_launch"
    /\ LET free == {c \in Children : children[c].st = "none"} IN
       \E ok \in BOOLEAN :
         IF ok /\ free # {}
         THEN LET new == CHOOSE c \in free : \A d \in free : c <= d IN
              /\ children' = [children EXCEPT ![new].st = "alive",
                                              ![new].code = bot_py]
              /\ ret' = new
              /\ Goto("assign")
              /\ UNCHANGED h_cur
         ELSE /\ Goto("assign")
              /\ ret' = bot_proc
              /\ h_cur' = [h_cur EXCEPT !.outcome = "failed"]
              /\ UNCHANGED children
    /\ UNCHANGED <<last_title, bot_proc, title, bot_url, intr, h_prev>>
    /\ UNCHANGED <<bot_py, h_commit>>
    /\ UNCHANGED bootvars

\* run_bot: return subprocess.Popen([sys.executable, 'bot.py'])
RbLaunch ==
    /\ pc = "rb_launch"
    /\ LET free == {c \in Children : children[c].st = "none"} IN
       \E ok \in BOOLEAN :
         IF ok /\ free # {}
         THEN LET new == CHOOSE c \in free : \A d \in free : c <= d IN
              /\ children' = [children EXCEPT ![new].st = "alive",
                                              ![new].code = bot_py]
              /\ ret' = new
              /\ Goto("assign")
              /\ UNCHANGED h_cur
         ELSE /\ Caught("Popen")
              /\ h_cur' = [h_cur EXCEPT !.outcome = "failed"]
              /\ UNCHANGED <<children, ret>>
    /\ UNCHANGED <<last_title, bot_proc, title, bot_url, intr, h_prev>>
    /\ UNCHANGED <<bot_py, h_commit>>
    /\ UNCHANGED bootvars

\* bot_proc = run_bot(r.text, bot_proc)
Assign ==
    /\ pc = "assign"
    /\ bot_proc' = ret
    /\ Goto("commit")
    /\ UNCHANGED <<last_title, title, bot_url, ret, children, intr, h_cur,
                   h_prev>>
    /\ UNCHANGED <<bot_py, h_commit>>
    /\ UNCHANGED bootvars

\* last_title = title
Commit ==
    /\ pc = "commit"
    /\ last_title' = title
    /\ h_cur' = [h_cur EXCEPT !.outcome = "committed"]
    /\ h_commit' = bot_proc
    /\ Goto("sleep")
    /\ UNCHANGED <<bot_proc, title, bot_url, ret, children, intr, h_prev,
                   bot_py>>
    /\ UNCHANGED bootvars

\* time.sleep(CHECK_INTERVAL) at the end of the try body returns.
Sleep ==
    /\ pc = "sleep"
    /\ Goto("fetch_page")
    /\ UNCHANGED <<last_title, bot_proc, title, bot_url, ret, children, intr,
                   h_cur, h_prev>>
    /\ UNCHANGED <<bot_py, h_commit>>
    /\ UNCHANGED bootvars

\* time.sleep(CHECK_INTERVAL) of the `except Exception` handler returns; the
\* name e is unbound at the end of the except clause.
ErrSleep ==
    /\ pc = "err_sleep"
    /\ pc' = "fetch_page"
    /\ e' = NoExc
    /\ UNCHANGED <<last_title, bot_proc, title, bot_url, ret, children, intr,
                   h_cur, h_prev>>
    /\ UNCHANGED <<bot_py, h_commit>>
    /\ UNCHANGED bootvars

\* Positions inside the try body of main(), where `except KeyboardInterrupt`
\* catches the interrupt.
TryBody == {"fetch_page", "install_libs", "get_bot", "rb_write", "rb_stop",
            "rb_wait", "rb_kill", "rb_launch", "assign", "commit", "sleep"}

\* Where a KeyboardInterrupt raised at position p continues: in the handler
\* of the try statement, or, raised inside the `except Exception` handler,
\* out of main() as an uncaught exception.
InterruptTarget(p) == IF p \in TryBody THEN "kbd" ELSE "uncaught"

\* What the main thread was doing at position p: sleeping in the try body,
\* sleeping in the `except Exception` handler, or polling / updating.
Doing(p) ==
    CASE p = "sleep"     -> "sleep"
      [] p = "err_sleep" -> "err_sleep"
      [] OTHER           -> "busy"

\* SIGINT is delivered: KeyboardInterrupt is raised in the main thread.
Interrupt ==
    /\ pc \in TryBody \cup {"err_sleep"}
    /\ pc' = InterruptTarget(pc)
    /\ intr' = Doing(pc)
    /\ UNCHANGED <<last_title, bot_proc, title, bot_url, ret, children, e,
                   h_cur, h_prev>>
    /\ UNCHANGED <<bot_py, h_commit>>
    /\ UNCHANGED bootvars

\* except KeyboardInterrupt: if bot_proc and bot_proc.poll() is None:
\*     bot_proc.terminate(); break
\* terminate() sends SIGTERM and returns at once; the child decides when, and
\* whether, it exits (ChildExit).
Shutdown ==
    /\ pc = "kbd"
    /\ children' = IF Alive(bot_proc)
                   THEN [children EXCEPT ![bot_proc].term = TRUE]
                   ELSE children
    /\ pc' = "done"
    /\ UNCHANGED <<last_title, bot_proc, title, bot_url, ret, e, intr, h_cur,
                   h_prev>>
    /\ UNCHANGED <<bot_py, h_commit>>
    /\ UNCHANGED bootvars

\* A child process exits: on its own, by crashing, or on SIGTERM.
ChildExit ==
    /\ \E c \in Children :
         /\ children[c].st = "alive"
         /\ children' = [children EXCEPT ![c].st = "exited"]
    /\ UNCHANGED <<pc, last_title, bot_proc, title, bot_url, ret, e, intr,
                   h_cur, h_prev>>
    /\ UNCHANGED <<bot_py, h_commit>>
    /\ UNCHANGED bootvars

\* One step of the supervisor's own thread.
MainStep ==
    \/ FetchPageFail \/ Poll \/ InstallLibs \/ GetBot \/ RbWrite \/ RbStop
    \/ RbWaitReturn \/ RbWaitTimeout \/ RbKill \/ RbLaunch \/ Assign
    \/ Commit \/ Sleep \/ ErrSleep \/ Shutdown

Next ==
    \/ FetchPageFail
    \/ Poll
    \/ InstallLibs
    \/ GetBot
    \/ RbWrite
    \/ RbStop
    \/ RbWaitReturn
    \/ RbWaitTimeout
    \/ RbKill
    \/ RbLaunch
    \/ Assign
    \/ Commit
    \/ Sleep
    \/ ErrSleep
    \/ Interrupt
    \/ Shutdown
    \/ ChildExit

Spec == Init /\ [][Next]_vars

\* The interpreter keeps executing the main thread: every blocking call of
\* main() has a timeout or returns.
FairSpec == Spec /\ WF_vars(MainStep)

\* ------------------------------------------- actions before main() runs
\* States of VENV_DIR on disk.
VenvStates == {"absent", "nopy", "nopip", "ok"}

\* main(): last_title = None; bot_proc = None; no child, no bot.py written.
MainInit ==
    /\ last_title = None
    /\ bot_proc = NoProc
    /\ title = None
    /\ bot_url = None
    /\ ret = NoProc
    /\ children = [c \in Children |-> NoChild]
    /\ e = NoExc
    /\ intr = "no"
    /\ h_cur = NoCycle
    /\ h_prev = NoPrev
    /\ bot_py = "none"
    /\ h_commit = NoProc

\* `python monitor.py` starts, with the system interpreter or with the
\* interpreter of an environment an earlier run left in VENV_DIR; VENV_DIR
\* and LOCAL_DEPS are as earlier runs left them.
BootInit ==
    /\ pc = "ensure"
    /\ MainInit
    /\ manifest = NoManifest
    /\ \E v \in VenvStates, d \in BOOLEAN, p \in {"system", "venv"} :
         /\ p = "venv" => v \in {"nopip", "ok"}
         /\ boot = [venv |-> v, deps_dir |-> d, prefix |-> p, inst |-> 1,
                    on_path |-> FALSE, calls |-> 1, attempts |-> 0,
                    state |-> "none", first |-> "none", redo |-> "none",
                    core |-> "none", err |-> "none"]

\* os.path.abspath(sys.prefix) == os.path.abspath(VENV_DIR)
InVenv == boot.prefix = "venv"

\* sys.executable -m pip can run: the interpreter of an environment made
\* without pip has none.
PipCanWork == ~(boot.prefix = "venv" /\ boot.venv = "nopip")

\* What a call of ensure_env_and_reexec after the first one did.
Redo(what) == IF boot.calls >= 2 THEN what ELSE boot.redo

\* ensure_env_and_reexec: if sys.prefix is VENV_DIR: return
EnsureCheck ==
    /\ pc = "ensure"
    /\ IF InVenv
       THEN /\ pc' = "core_probe"
            /\ boot' = [boot EXCEPT !.state = "IsolatedEnv"]
       ELSE /\ pc' = "try_venv"
            /\ UNCHANGED boot
    /\ UNCHANGED <<mainvars, manifest>>

\* _try_create_venv: isdir(VENV_DIR) -> True; else python -m venv VENV_DIR
TryVenv ==
    /\ pc = "try_venv"
    /\ IF boot.venv # "absent"
       THEN /\ pc' = "venv_py"
            /\ UNCHANGED boot
       ELSE \E out \in VenvStates :
              /\ boot' = [boot EXCEPT !.venv = out,
                                      !.attempts = @ + 1,
                                      !.redo = Redo("create")]
              /\ pc' = IF out = "ok" THEN "venv_py" ELSE "try_virtualenv"
    /\ UNCHANGED <<mainvars, manifest>>

\* _try_create_venv, except CalledProcessError: pip install --user
\* virtualenv; python -m virtualenv VENV_DIR; except Exception: return False
TryVirtualenv ==
    /\ pc = "try_virtualenv"
    /\ \E pip \in BOOLEAN, made \in BOOLEAN :
         IF pip /\ made
         THEN /\ boot' = [boot EXCEPT !.venv = "ok",
                                      !.attempts = @ + 1,
                                      !.redo = Redo("create")]
              /\ pc' = "venv_py"
         ELSE /\ \E left \in IF pip /\ boot.venv = "absent"
                             THEN {"absent", "nopy"}
                             ELSE {boot.venv} :
                   boot' = [boot EXCEPT !.venv = left,
                                        !.attempts = @ + 1,
                                        !.redo = Redo("create")]
              /\ pc' = "local_target"
    /\ UNCHANGED <<mainvars, manifest>>

\* ensure_env_and_reexec: if not exists(venv_py): raise RuntimeError;
\* os.execv(venv_py, [venv_py, MAIN_SCRIPT])
VenvPy ==
    /\ pc = "venv_py"
    /\ IF boot.venv \in {"absent", "nopy"}
       THEN /\ pc' = "boot_error"
            /\ boot' = [boot EXCEPT !.err = "RuntimeError",
                                    !.redo = Redo("raise")]
       ELSE /\ boot.inst < MaxInstances
            /\ pc' = "ensure"
            /\ boot' = [boot EXCEPT !.inst = @ + 1,
                                    !.prefix = "venv",
                                    !.on_path = FALSE,
                                    !.calls = 1,
                                    !.attempts = 0,
                                    !.state = "none",
                                    !.first = "none",
                                    !.redo = Redo("exec")]
    /\ UNCHANGED <<mainvars, manifest>>

\* _activate_local_target_site(): makedirs(LOCAL_DEPS); sys.path.insert
LocalTarget ==
    /\ pc = "local_target"
    /\ pc' = "core_probe"
    /\ boot' = [boot EXCEPT !.deps_dir = TRUE,
                            !.on_path = TRUE,
                            !.state = "LocalTargetDir"]
    /\ UNCHANGED <<mainvars, manifest>>

\* install_core_deps: try: import requests; from bs4 import BeautifulSoup;
\* return; except Exception: pass.  Returning enters main().
CoreProbe ==
    /\ pc = "core_probe"
    /\ \E present \in BOOLEAN :
         IF present
         THEN /\ pc' = "fetch_page"
              /\ boot' = [boot EXCEPT !.core = "present"]
         ELSE /\ pc' = "core_pip"
              /\ UNCHANGED boot
    /\ UNCHANGED <<mainvars, manifest>>

\* install_core_deps: try: _pip_install(['requests', 'beautifulsoup4'])
CorePip ==
    /\ pc = "core_pip"
    /\ \E ok \in BOOLEAN :
         /\ ok => PipCanWork
         /\ IF ok
            THEN /\ pc' = "fetch_page"
                 /\ boot' = [boot EXCEPT !.core = "site"]
            ELSE /\ pc' = "core_target"
                 /\ UNCHANGED boot
    /\ UNCHANGED <<mainvars, manifest>>

\* install_core_deps, except CalledProcessError: makedirs(LOCAL_DEPS);
\* _pip_install(['--target', LOCAL_DEPS, ...]), outside any try
CoreTarget ==
    /\ pc = "core_target"
    /\ \E ok \in BOOLEAN :
         /\ ok => PipCanWork
         /\ IF ok
            THEN /\ pc' = "fetch_page"
                 /\ boot' = [boot EXCEPT !.deps_dir = TRUE,
                                         !.core = "target"]
            ELSE /\ pc' = "boot_error"
                 /\ boot' = [boot EXCEPT !.deps_dir = TRUE,
                                         !.core = "failed",
                                         !.err = "CalledProcessError"]
    /\ UNCHANGED <<mainvars, manifest>>

\* ensure_env_and_reexec() is called again in the same process instance,
\* after the first call has returned.
EnsureAgain ==
    /\ pc = "core_probe"
    /\ boot.calls < MaxCalls
    /\ pc' = "ensure"
    /\ boot' = [boot EXCEPT !.calls = @ + 1, !.first = boot.state]
    /\ UNCHANGED <<mainvars, manifest>>

\* __main__: ensure_env_and_reexec(); install_core_deps(); main()
BootNext ==
    \/ EnsureCheck \/ TryVenv \/ TryVirtualenv \/ VenvPy \/ LocalTarget
    \/ CoreProbe \/ CorePip \/ CoreTarget

BootSpec == BootInit /\ [][BootNext]_vars

\* The same, with ensure_env_and_reexec() called up to MaxCalls times.
TwiceSpec == BootInit /\ [][BootNext \/ EnsureAgain]_vars

\* ------------------------------------------------- manifest parsing
\* Length of the text of libraries.txt, in characters.
MaxTextLen == 6

\* Characters of the manifest text: " " stands for the whitespace
\* str.strip() removes, "\n" for the line boundaries str.splitlines()
\* splits at, "#" is itself, "a" and "b" are any other characters.
Chars == {" ", "#", "a", "b", "\n"}

\* r.text: every text of at most MaxTextLen characters.
Texts == UNION {[1..n -> Chars] : n \in 0..MaxTextLen}

\* str.splitlines(): the pieces between line boundaries, without the
\* boundaries; no empty last piece after a final boundary.
RECURSIVE splitlines_from(_, _)
splitlines_from(t, cur) ==
    IF t = <<>>
    THEN IF cur = <<>> THEN <<>> ELSE <<cur>>
    ELSE IF Head(t) = "\n"
         THEN <<cur>> \o splitlines_from(Tail(t), <<>>)
         ELSE splitlines_from(Tail(t), Append(cur, Head(t)))

splitlines(t) == splitlines_from(t, <<>>)

\* str.lstrip(), str.rstrip() and str.strip() on a line.
RECURSIVE lstrip(_)
lstrip(l) ==
    IF l # <<>> /\ Head(l) = " " THEN lstrip(Tail(l)) ELSE l

RECURSIVE rstrip(_)
rstrip(l) ==
    IF l # <<>> /\ l[Len(l)] = " "
    THEN rstrip(SubSeq(l, 1, Len(l) - 1))
    ELSE l

line_strip(l) == rstrip(lstrip(l))

\* str.startswith('#')
startswith_hash(l) == l # <<>> /\ Head(l) = "#"

\* Mutant: the lines kept are passed on as they are in the text.
RECURSIVE manifest_lines_raw(_)
manifest_lines_raw(ls) ==
    IF ls = <<>>
    THEN <<>>
    ELSE LET l == Head(ls)
         IN  (IF line_strip(l) # <<>> /\ ~startswith_hash(line_strip(l))
              THEN <<l>>
              ELSE <<>>) \o manifest_lines_raw(Tail(ls))

\* [l.strip() for l in ... if l.strip() and not l.strip().startswith('#')]
RECURSIVE manifest_lines(_)
manifest_lines(ls) ==
    IF ls = <<>>
    THEN <<>>
    ELSE LET l == Head(ls)
         IN  (IF line_strip(l) # <<>> /\ ~startswith_hash(line_strip(l))
              THEN <<line_strip(l)>>
              ELSE <<>>) \o manifest_lines(Tail(ls))

\* install_external_libs has fetched libraries.txt (lines 104-105) and is
\* about to make the list `lines`.
ParseInit ==
    /\ pc = "parse_manifest"
    /\ MainInit
    /\ boot = Booted
    /\ \E t \in Texts :
         manifest = [text |-> t, lines |-> <<>>, parsed |-> FALSE]

\* lines = [l.strip() for l in r.text.splitlines() if ...]
ParseManifest ==
    /\ pc = "parse_manifest"
    /\ pc' = "pip_libs"
    /\ manifest' = [manifest EXCEPT
                       !.lines = manifest_lines(splitlines(manifest.text)),
                       !.parsed = TRUE]
    /\ UNCHANGED <<mainvars, boot>>

ParseSpec == ParseInit /\ [][ParseManifest]_vars

\* ------------------------------------------------------------ properties
\* Positions of main() inside the body of the if statement (an update).
Updating == {"install_libs", "get_bot", "rb_write", "rb_stop", "rb_wait",
             "rb_kill", "rb_launch", "assign", "commit"}

\* Positions where main() has stopped for good.
Terminal == {"done", "uncaught"}

\* C1: in every cycle whose page was parsed, the update is started if and
\* only if the polled title differs from last_title as it was at the poll
\* and a link was found; main() is inside the update, or has failed or
\* committed in it, only in a cycle that started one.
C1_UpdateIffChangedAndLink ==
    /\ h_cur.outcome # "nopoll" =>
         (h_cur.started <=> (title # h_cur.last /\ bot_url # None))
    /\ h_prev.outcome # "nopoll" =>
         (h_prev.started <=> (h_prev.title # h_prev.last /\ h_prev.link))
    /\ pc \in Updating => h_cur.started
    /\ h_cur.outcome \in {"failed", "committed"} => h_cur.started
    /\ h_cur.started /\ pc = "sleep" => h_cur.outcome = "committed"

\* C1 witness: with A committed, a poll of A with a link started nothing and
\* the next poll, of B with a link, has started the update.
C1_Witness ==
    /\ h_prev.outcome = "polled" /\ h_prev.title = "A" /\ h_prev.last = "A"
    /\ h_prev.link /\ ~h_prev.started
    /\ h_cur.last = "A" /\ title = "B" /\ bot_url # None
    /\ h_cur.started /\ pc = "install_libs"

\* C2: at most one child started by the supervisor is alive at any time, and
\* the previous child is not alive when run_bot is about to launch.
C2_AtMostOneChild ==
    /\ Cardinality(AliveChildren) <= 1
    /\ pc = "rb_launch" => ~Alive(bot_proc)

\* C2 witness: a new child runs after the previous one had to be killed.
C2_Witness ==
    /\ pc = "assign"
    /\ bot_proc # NoProc /\ children[bot_proc].st = "killed"
    /\ Alive(ret)

\* C3: a poll whose title differs from last_title but that has no link starts
\* no update and leaves last_title as it was; if the next parsed poll shows
\* the same title with a link, that poll starts the update.
C3_NoLinkSuppression ==
    /\ (h_cur.outcome # "nopoll" /\ title # h_cur.last /\ bot_url = None) =>
         /\ ~h_cur.started
         /\ pc \notin Updating
         /\ last_title = h_cur.last
    /\ (h_prev.outcome # "nopoll" /\ h_prev.title # h_prev.last
          /\ ~h_prev.link) =>
         /\ ~h_prev.started
         /\ h_cur.last = h_prev.last
         /\ (title = h_prev.title /\ bot_url # None) => h_cur.started

\* C3 witness: A committed, then B without a link, then B with a link, which
\* has started the update.
C3_Witness ==
    /\ h_prev.outcome = "polled" /\ h_prev.last = "A" /\ h_prev.title = "B"
    /\ ~h_prev.link
    /\ title = "B" /\ bot_url # None /\ h_cur.last = "A"
    /\ pc = "install_libs"

\* C4: in run_bot the old child is sent SIGTERM before anything else; when
\* wait() returns within the grace period it is never killed; when wait()
\* times out kill() has been called before the new child is launched, and a
\* child is only ever killed after SIGTERM and a timed-out wait.
C4_GracefulThenForceful ==
    LET old == h_cur.proc IN
    /\ h_cur.stop # "none" => old # NoProc /\ children[old].term
    /\ h_cur.stop = "returned" => children[old].st = "exited"
    /\ h_cur.stop = "kill" => children[old].st \in {"killed", "exited"}
    /\ (h_cur.stop # "none" /\ children[old].st = "killed") => h_cur.stop = "kill"
    /\ pc \in {"rb_launch", "assign", "commit"} =>
         h_cur.stop \in {"none", "returned", "kill"}
    /\ \A c \in Children : children[c].st = "killed" => children[c].term

\* C4 witness: the old child outlived the grace period, was killed, and the
\* new child has been launched.
C4_Witness ==
    /\ pc = "assign"
    /\ h_cur.stop = "kill"
    /\ children[h_cur.proc].st = "killed"
    /\ Alive(ret) /\ ret # h_cur.proc

\* C5: when a step of an update fails, last_title and bot_proc keep their
\* values and main() is in the error handler's sleep; the next parsed poll
\* that shows the same title with a link starts the update again; after a
\* failed launch bot_proc is the previous handle, which is not alive.
C5_FailedUpdateNotCommitted ==
    /\ h_cur.outcome = "failed" =>
         /\ last_title = h_cur.last
         /\ bot_proc = h_cur.proc
         /\ pc \in {"err_sleep", "fetch_page", "kbd"} \cup Terminal
    /\ (pc = "err_sleep" /\ e # "fetch_page") => h_cur.outcome = "failed"
    /\ h_prev.outcome = "failed" =>
         /\ h_cur.last = h_prev.last
         /\ (title = h_prev.title /\ bot_url # None) => h_cur.started
    /\ (pc = "err_sleep" /\ e = "Popen") =>
         bot_proc = h_cur.proc /\ ~Alive(bot_proc)

\* C5 witness: an update failed, the next poll showed the same title with a
\* link and started it again, and that attempt failed at the launch with a
\* previous child handle in bot_proc.
C5_Witness ==
    /\ h_prev.outcome = "failed"
    /\ title = h_prev.title /\ h_cur.started
    /\ pc = "err_sleep" /\ e = "Popen"
    /\ bot_proc # NoProc

\* C6: the step in which fetch_page raises changes neither last_title nor
\* bot_proc nor any child (no signal is sent) and enters the error handler's
\* sleep, and that sleep, unless interrupted, ends in the next fetch_page.
C6_PollFailureIsolated ==
    /\ [][(pc = "fetch_page" /\ e' = "fetch_page") =>
            /\ pc' = "err_sleep"
            /\ UNCHANGED <<last_title, bot_proc, children>>]_vars
    /\ [][(e = "fetch_page" /\ intr' = "no") =>
            pc' \in {"err_sleep", "fetch_page"}]_vars

\* C6 witness: the page fetch has failed while a child runs, and the child
\* has not been sent SIGTERM.
C6_Witness ==
    /\ pc = "err_sleep" /\ e = "fetch_page"
    /\ Alive(bot_proc) /\ ~children[bot_proc].term

\* C7 (as claimed): once main() has stopped after a KeyboardInterrupt that
\* arrived during one of its two sleeps, no child is alive.
C7_ShutdownLeavesNoChild ==
    (intr \in {"sleep", "err_sleep"} /\ pc \in Terminal) => AliveChildren = {}

\* C8 (as claimed): a failure of install_external_libs never ends the cycle
\* in the error handler; the update goes on.
C8_ManifestFailureDoesNotAbort ==
    ~(pc = "err_sleep" /\ e = "install_external_libs")

\* C9: without a KeyboardInterrupt main() never stops, every exception of a
\* cycle ends in the error handler's sleep, and main() always polls again.
C9_LoopRunsForever ==
    /\ [](intr = "no" => pc \notin Terminal \cup {"kbd"})
    /\ [](e # NoExc => pc = "err_sleep" \/ intr # "no")
    /\ []<>(pc = "fetch_page" \/ intr # "no")

\* C9 witness: main() is about to poll again after two cycles that failed.
C9_Witness ==
    /\ pc = "fetch_page" /\ intr = "no"
    /\ h_cur.outcome = "failed" /\ h_prev.outcome = "failed"

\* C10 (as claimed): a page answered with a non-2xx status starts no update
\* and does not change last_title.
C10_Non2xxPageIgnored ==
    h_cur.status = "non2xx" => ~h_cur.started /\ last_title = h_cur.last

\* C15 (as claimed): when the KeyboardInterrupt handler runs, every child
\* that was launched and is alive is the one bot_proc names.
C15_ShutdownKnowsEveryChild ==
    pc \in {"kbd", "done"} => AliveChildren \subseteq {bot_proc}

\* C16: SIGTERM is sent by run_bot only to the old child and only once
\* bot.py holds the payload of this cycle; a failing write changes no child;
\* a child is created only with that payload in bot.py and the old child not
\* alive, and it executes that payload.
C16_PersistStopLaunch ==
    /\ [][\A c \in Children :
            (~children[c].term /\ children'[c].term /\ pc # "kbd") =>
               (pc = "rb_stop" /\ c = bot_proc /\ bot_py = "new")]_vars
    /\ [][(pc = "rb_write" /\ e' = "write") => children' = children]_vars
    /\ [][\A c \in Children :
            (children[c].st = "none" /\ children'[c].st = "alive") =>
               /\ bot_py = "new"
               /\ ~Alive(bot_proc)
               /\ children'[c].code = "new"]_vars

\* C16 witness: writing bot.py failed and the previous child is running,
\* without a SIGTERM.
C16_Witness ==
    /\ pc = "err_sleep" /\ e = "write"
    /\ Alive(bot_proc) /\ ~children[bot_proc].term

\* C18: as long as last_title is None, a parsed poll starts the update if
\* and only if it has a link, whatever its title.
C18_FirstPoll ==
    (h_cur.outcome # "nopoll" /\ h_cur.last = None) =>
        /\ h_cur.started <=> bot_url # None
        /\ bot_url = None => pc \notin Updating
        /\ title # None

\* C18 witness: the first parsed poll has an empty title and a link, and the
\* update has started.
C18_Witness ==
    /\ h_prev.outcome = "nopoll" /\ h_cur.last = None
    /\ title = "" /\ bot_url # None
    /\ pc = "install_libs"

\* C19 (as claimed): whenever last_title is not None, bot_proc is the child
\* launched in the cycle that assigned last_title.
C19_TitleAndChildTogether ==
    last_title # None => bot_proc # NoProc /\ bot_proc = h_commit

\* C19 (amended): whenever last_title is not None, bot_proc holds a child;
\* it is the child launched in the cycle that assigned last_title, except
\* after `bot_proc = run_bot(...)` of a later update and before its
\* `last_title = title`; a cycle that has committed leaves in bot_proc the
\* child it launched, executing the payload it fetched.
C19_TogetherExceptBetween ==
    /\ last_title # None =>
         /\ bot_proc # NoProc
         /\ \/ bot_proc = h_commit
            \/ /\ bot_proc = ret
               /\ h_cur.started /\ h_cur.outcome = "polled"
               /\ pc \in {"commit", "kbd", "done"}
    /\ h_cur.outcome = "committed" =>
         /\ last_title = title
         /\ bot_proc = ret /\ bot_proc = h_commit
         /\ children[bot_proc].code = "new"

\* C19 witness: a second update has committed and replaced the handle.
C19_Witness ==
    /\ pc = "sleep" /\ h_cur.outcome = "committed"
    /\ h_cur.last # None /\ h_cur.proc # NoProc
    /\ bot_proc # h_cur.proc

\* C20: a child is created only by run_bot in a cycle whose title differs
\* from last_title; a cycle whose title equals last_title is never inside
\* the update.
C20_NoRelaunch ==
    /\ [][\A c \in Children :
            (children[c].st = "none" /\ children'[c].st = "alive") =>
               (pc = "rb_launch" /\ h_cur.started /\ title # h_cur.last)]_vars
    /\ [](h_cur.outcome # "nopoll" /\ title = h_cur.last => pc \notin Updating)

\* C20 witness: the child exited on its own, two polls since showed the
\* committed title with a link, and no child is alive.
C20_Witness ==
    /\ pc = "sleep" /\ last_title # None
    /\ title = last_title /\ bot_url # None /\ h_cur.outcome = "polled"
    /\ h_prev.title = last_title /\ h_prev.link /\ h_prev.outcome = "polled"
    /\ children[bot_proc].st = "exited" /\ ~children[bot_proc].term
    /\ AliveChildren = {}

\* C11 (as claimed): ensure_env_and_reexec never ends the process with an
\* error, and when it returns in local-target mode LOCAL_DEPS exists and is
\* on sys.path.
C11_ProvisioningNeverFatal ==
    /\ boot.err # "RuntimeError"
    /\ boot.state = "LocalTargetDir" => boot.deps_dir /\ boot.on_path

\* C12 (as claimed): a second call of ensure_env_and_reexec in the same
\* process instance runs no environment-creation command, does not re-launch
\* or raise, and leaves the provisioning state the first call left.
C12_SecondCallNoOp ==
    /\ boot.redo = "none"
    /\ (boot.calls >= 2 /\ pc = "core_probe") => boot.state = boot.first

\* C13 (as claimed): install_core_deps never ends the process: whatever the
\* --target retry does, main() is entered.
C13_CoreInstallNeverAborts ==
    boot.err # "CalledProcessError"

\* C17 (as claimed): there is at most one re-launch; the re-launched
\* instance is inside the environment, runs no environment-creation command,
\* and goes on through install_core_deps to main() without ending in an
\* error.
C17_AtMostOneReplacement ==
    /\ boot.inst <= 2
    /\ boot.inst = 2 =>
         /\ boot.prefix = "venv"
         /\ boot.attempts = 0
         /\ pc \in {"ensure", "core_probe", "core_pip", "core_target",
                    "fetch_page"}

\* The lines of the manifest text, said without the code: a line starts at
\* the first character and after every "\n", provided there is a character
\* there (a final "\n" opens no line), and ends before the next "\n".
LineStarts ==
    LET T == manifest.text
    IN  {s \in 1..Len(T) : s = 1 \/ T[s - 1] = "\n"}

LineEnd(s) ==
    LET T  == manifest.text
        nl == {i \in s..Len(T) : T[i] = "\n"}
    IN  IF nl = {} THEN Len(T)
        ELSE (CHOOSE i \in nl : \A j \in nl : i <= j) - 1

\* The positions of the characters of the line at s that are not whitespace.
Ink(s) == {i \in s..LineEnd(s) : manifest.text[i] # " "}

First(S) == CHOOSE i \in S : \A j \in S : i <= j
Last(S) == CHOOSE i \in S : \A j \in S : i >= j

\* The n-th line start, in text order, of a set of line starts.
Nth(K, n) == CHOOSE s \in K : Cardinality({x \in K : x <= s}) = n

\* C14 (as claimed): the list is, in text order, exactly the lines that are
\* not blank and do not begin with '#', each as it is in the text.
C14_ManifestVerbatim ==
    manifest.parsed =>
        LET T == manifest.text
            K == {s \in LineStarts : Ink(s) # {} /\ T[s] # "#"}
        IN  /\ Len(manifest.lines) = Cardinality(K)
            /\ \A n \in 1..Len(manifest.lines) :
                 manifest.lines[n] = SubSeq(T, Nth(K, n), LineEnd(Nth(K, n)))

\* C14 (amended): the list is, in text order, exactly the lines that have a
\* character other than whitespace and whose first such character is not
\* '#', each without its leading and trailing whitespace.
C14_ManifestStripped ==
    manifest.parsed =>
        LET T == manifest.text
            K == {s \in LineStarts : Ink(s) # {} /\ T[First(Ink(s))] # "#"}
        IN  /\ Len(manifest.lines) = Cardinality(K)
            /\ \A n \in 1..Len(manifest.lines) :
                 manifest.lines[n] =
                     SubSeq(T, First(Ink(Nth(K, n))), Last(Ink(Nth(K, n))))

\* C14 witness: "#\n a\nb" has been parsed to ["a", "b"].
C14_Witness ==
    /\ manifest.parsed
    /\ manifest.text = <<"#", "\n", " ", "a", "\n", "b">>
    /\ manifest.lines = << <<"a">>, <<"b">> >>

====
